---------------------------- MODULE Spec2Model ----------------------------
(***************************************************************************)
(* Model of champion_round_based_analysis.py: the aggregation pipeline     *)
(* (map stage), the reduce loop over the cursor, the pass that turns the   *)
(* cumulated placements into averages, and the json dump.                  *)
(*                                                                         *)
(* Python values are modelled as follows.                                  *)
(*   - a str is the sequence of its characters ("S_A" is <<"S","_","A">>), *)
(*     so that split('_') is computed and not assumed;                     *)
(*   - the outer keys of results are ints (last_round) or the str 'total': *)
(*     an int n is [int |-> n] and a str s is [str |-> s], which keeps the *)
(*     two kinds of key distinct, as in Python;                            *)
(*   - a number is the reduced fraction [num, den] of its value, an int n  *)
(*     being [num |-> n, den |-> 1]: avg_place holds the cumulated sum and, *)
(*     after the true division, sum/count (floating-point rounding is not  *)
(*     modelled);                                                          *)
(*   - the files written are a sequence of dumped dictionaries.            *)
(***************************************************************************)
EXTENDS Integers, Sequences, FiniteSets, Bags, TLC

VARIABLES
    results,      \* the results dictionary (lines 140-147, mutated by the loop)
    pc,           \* position of the script: "fold", "finalize", "dump", "done", "crashed"
    participant,  \* the unwound participant the aggregation read last (NoDoc before the first)
    fetched,      \* number of participants read from the collection so far
    accepted,     \* history: bag of the players the loop body folded completely
    artifact      \* the dictionaries json.dump wrote, in order (none while nothing is written)

vars == <<results, pc, participant, fetched, accepted, artifact>>

----------------------------------------------------------------------------
(* Bounds of the model *)

\* number of participants the collection holds at most
MaxPlayers == 3

----------------------------------------------------------------------------
(* Strings *)

TOTAL == <<"t", "o", "t", "a", "l">>

Range(s) == {s[i] : i \in 1..Len(s)}

\* x.split('_')[-1]: what follows the last '_' (all of x when it has none)
LastSegment(x) ==
    LET cuts == {i \in 1..Len(x) : x[i] = "_"}
        last == IF cuts = {} THEN 0 ELSE CHOOSE i \in cuts : \A j \in cuts : j <= i
    IN  SubSeq(x, last + 1, Len(x))

\* keys_list of a player: one key per unit, in order (lines 191-197)
KeysList(units) == [i \in 1..Len(units) |-> LastSegment(units[i])]

----------------------------------------------------------------------------
(* The collection: unwound participants of matches *)

RankedQueue == 1100
MinUnits == 6
ExcludedRounds == {11, 15, 18, 22, 25, 29, 32, 36, 39, 43, 46, 50}

\* character ids
S_A == <<"S", "_", "A">>
S_B == <<"S", "_", "B">>
S_C == <<"S", "_", "C">>
S_D == <<"S", "_", "D">>
S_E == <<"S", "_", "E">>
S_F == <<"S", "_", "F">>
T_A == <<"T", "_", "A">>
S_total == <<"S", "_">> \o TOTAL

\* five distinct units, then possibly a sixth: a second copy of S_A, a new
\* champion, another set's version of champion A, a unit named 'total'
Base == <<S_A, S_B, S_C, S_D, S_E>>
Rosters == {Base} \cup {Append(Base, u) : u \in {S_A, S_F, T_A, S_total}}

Queues == {RankedQueue, 1090}
LastRounds == {5, 6, 15}
Placements == {1, 8}

WellFormed ==
    [queue_id : {RankedQueue}, units : Rosters, last_round : LastRounds, placement : Placements]

Without(doc, f) == [g \in (DOMAIN doc) \ {f} |-> doc[g]]

\* participants of other queues, and participants lacking a field
Unranked ==
    [queue_id : Queues \ {RankedQueue}, units : {Append(Base, S_F)},
     last_round : {5}, placement : Placements]
Malformed ==
    {Without(d, f) : d \in {w \in WellFormed : w.units = Append(Base, S_F) /\ w.last_round = 5},
                     f \in {"placement", "last_round"}}

RawParticipants == WellFormed \cup Unranked \cup Malformed

NoDoc == [none |-> TRUE]
NoArtifact == <<>>

----------------------------------------------------------------------------
(* The map stage: the aggregation pipeline (lines 32-74) *)

Has(doc, f) == f \in DOMAIN doc

\* $addFields num_units: $size of the units (line 44)
NumUnits(raw) == Len(raw.units)

\* the pipeline without its last $match stage
PipelineMatchAnyRound(raw) ==
    /\ raw.queue_id = RankedQueue
    /\ NumUnits(raw) >= MinUnits

\* the three $match stages (lines 35, 48, 53); $nin also selects a document
\* that lacks the field
PipelineMatch(raw) ==
    /\ raw.queue_id = RankedQueue
    /\ NumUnits(raw) >= MinUnits
    /\ (Has(raw, "last_round") => raw.last_round \notin ExcludedRounds)

\* $addFields units and $project (lines 56-73): a field the participant
\* lacks is absent from the projected document too
Project(raw) ==
    LET kept == {"last_round", "placement"} \cap DOMAIN raw
    IN  [f \in kept \cup {"num_units", "units"} |->
            IF f = "num_units" THEN NumUnits(raw)
            ELSE IF f = "units" THEN raw.units
            ELSE raw[f]]

----------------------------------------------------------------------------
(* Numbers *)

RECURSIVE GCD(_, _)
GCD(a, b) == IF b = 0 THEN a ELSE GCD(b, a % b)

\* the number num/den for den > 0
Reduced(num, den) ==
    LET g == GCD(num, den)
    IN  [num |-> num \div g, den |-> den \div g]

\* the int n
Number(n) == Reduced(n, 1)

\* x + n for an int n (+=)
Plus(x, n) == Reduced(x.num + n * x.den, x.den)

----------------------------------------------------------------------------
(* The reduce stage: the body of `for player in query` (lines 149-217) *)

IntKey(n) == [int |-> n]
StrKey(s) == [str |-> s]
TotalRound == StrKey(TOTAL)

\* lines 140-147
InitResults == TotalRound :> (TOTAL :> [count |-> 0, avg_place |-> Number(0)])

\* line 157: the duplicate-unit test
HasDuplicates(player) == Cardinality(Range(player.units)) # player.num_units

\* lines 164-165
AddTotal(res, place) ==
    [res EXCEPT ![TotalRound][TOTAL] =
        [count |-> @.count + 1, avg_place |-> Plus(@.avg_place, place)]]

\* the round's total assigned instead of cumulated
AddRoundAssigns(res, last_round, place) ==
    IF IntKey(last_round) \notin DOMAIN res
    THEN res @@ (IntKey(last_round) :> (TOTAL :> [count |-> 1, avg_place |-> Number(place)]))
    ELSE [res EXCEPT ![IntKey(last_round)][TOTAL] =
            [count |-> @.count + 1, avg_place |-> Number(place)]]

\* lines 170-179
AddRound(res, last_round, place) ==
    IF IntKey(last_round) \notin DOMAIN res
    THEN res @@ (IntKey(last_round) :> (TOTAL :> [count |-> 1, avg_place |-> Number(place)]))
    ELSE [res EXCEPT ![IntKey(last_round)][TOTAL] =
            [count |-> @.count + 1, avg_place |-> Plus(@.avg_place, place)]]

\* lines 201-208 and 210-217: create the entry or add to it
AddKey(res, round, key, place) ==
    IF key \notin DOMAIN res[round]
    THEN [res EXCEPT ![round] = @ @@ (key :> [count |-> 1, avg_place |-> Number(place)])]
    ELSE [res EXCEPT ![round][key] =
            [count |-> @.count + 1, avg_place |-> Plus(@.avg_place, place)]]

\* lines 200-217: for key in keys_list
RECURSIVE AddKeys(_, _, _, _)
AddKeys(res, last_round, keys, place) ==
    IF keys = <<>> THEN res
    ELSE LET inRound == AddKey(res, IntKey(last_round), Head(keys), place)
             inTotal == AddKey(inRound, TotalRound, Head(keys), place)
         IN  AddKeys(inTotal, last_round, Tail(keys), place)

\* lines 160-217 for a player with all its fields
Fold(res, player) ==
    LET place == player.placement
        last_round == player.last_round
    IN  AddKeys(AddRound(AddTotal(res, place), last_round, place),
                last_round, KeysList(player.units), place)

\* the loop body with the duplicate test moved below the total count
LoopBodyLateTest(res, player) ==
    IF ~Has(player, "placement")
    THEN [res |-> res, outcome |-> IF HasDuplicates(player) THEN "skipped" ELSE "raised"]
    ELSE IF HasDuplicates(player)
         THEN [res |-> AddTotal(res, player.placement), outcome |-> "skipped"]
    ELSE IF ~Has(player, "last_round")
         THEN [res |-> AddTotal(res, player.placement), outcome |-> "raised"]
    ELSE [res |-> Fold(res, player), outcome |-> "folded"]

\* the loop body: [res |-> the dictionary after it, outcome |-> how it ended]
\* player['placement'] (line 161) and player['last_round'] (line 168) raise
\* KeyError on a document without the field
LoopBody(res, player) ==
    IF HasDuplicates(player) THEN [res |-> res, outcome |-> "skipped"]
    ELSE IF ~Has(player, "placement") THEN [res |-> res, outcome |-> "raised"]
    ELSE IF ~Has(player, "last_round")
         THEN [res |-> AddTotal(res, player.placement), outcome |-> "raised"]
    ELSE [res |-> Fold(res, player), outcome |-> "folded"]

----------------------------------------------------------------------------
(* The averages (lines 219-222) *)

\* x / count for an int count # 0 (/=)
TrueDiv(x, count) == Reduced(x.num, x.den * count)

\* the division raises ZeroDivisionError on a count of 0
DivisionRaises(res) == \E r \in DOMAIN res : \E k \in DOMAIN res[r] : res[r][k].count = 0

\* the averages with every sum divided by its count twice
AveragesTwice(res) ==
    [r \in DOMAIN res |->
        [k \in DOMAIN res[r] |->
            [count |-> res[r][k].count,
             avg_place |-> TrueDiv(TrueDiv(res[r][k].avg_place, res[r][k].count),
                                  res[r][k].count)]]]

Averages(res) ==
    [r \in DOMAIN res |->
        [k \in DOMAIN res[r] |->
            [count |-> res[r][k].count,
             avg_place |-> TrueDiv(res[r][k].avg_place, res[r][k].count)]]]

----------------------------------------------------------------------------
(* The script *)

Init ==
    /\ results = InitResults
    /\ pc = "fold"
    /\ participant = NoDoc
    /\ fetched = 0
    /\ accepted = EmptyBag
    /\ artifact = NoArtifact

\* one participant read by the aggregation; a participant the pipeline
\* selects is projected and handed to the loop body
ForPlayer ==
    /\ pc = "fold"
    /\ fetched < MaxPlayers
    /\ \E raw \in RawParticipants :
        LET body == LoopBody(results, Project(raw))
        IN  /\ participant' = raw
            /\ fetched' = fetched + 1
            /\ IF PipelineMatch(raw)
               THEN /\ results' = body.res
                    /\ pc' = IF body.outcome = "raised" THEN "crashed" ELSE "fold"
                    /\ accepted' = IF body.outcome = "folded"
                                   THEN accepted (+) SetToBag({Project(raw)})
                                   ELSE accepted
               ELSE UNCHANGED <<results, pc, accepted>>
    /\ UNCHANGED artifact

\* the cursor is exhausted: the for loop ends
EndOfQuery ==
    /\ pc = "fold"
    /\ pc' = "finalize"
    /\ UNCHANGED <<results, participant, fetched, accepted, artifact>>

\* lines 220-222; 'total'/'total' is the first entry the loops visit and the
\* only one that can hold a count of 0, so a failing division changes nothing
Finalize ==
    /\ pc = "finalize"
    /\ IF DivisionRaises(results)
       THEN /\ pc' = "crashed"
            /\ UNCHANGED results
       ELSE /\ pc' = "dump"
            /\ results' = Averages(results)
    /\ UNCHANGED <<participant, fetched, accepted, artifact>>

\* the dump reached after an exception too
DumpAlways ==
    /\ pc \in {"dump", "crashed"}
    /\ artifact' = Append(artifact, results)
    /\ pc' = "done"
    /\ UNCHANGED <<results, participant, fetched, accepted>>

\* lines 228-231
Dump ==
    /\ pc = "dump"
    /\ artifact' = Append(artifact, results)
    /\ pc' = "done"
    /\ UNCHANGED <<results, participant, fetched, accepted>>

Next == ForPlayer \/ EndOfQuery \/ Finalize \/ Dump

Spec == Init /\ [][Next]_vars

----------------------------------------------------------------------------
(* Vocabulary of the properties *)

\* comparisons of a number with an int, and of two numbers
AtLeast(x, n) == x.num >= n * x.den
AtMost(x, n) == x.num <= n * x.den
NotBelow(x, y) == x.num * y.den >= y.num * x.den
\* x * n = y
Times(x, n, y) == x.num * n * y.den = y.num * x.den

Entries(res) == UNION {{<<r, k>> : k \in DOMAIN res[r]} : r \in DOMAIN res}

\* the loop has ended without an exception
FoldEnded == pc \in {"finalize", "dump", "done"}
\* the averages have been computed
Averaged == pc \in {"dump", "done"}
\* this step reads one participant from the collection
ReadsParticipant == fetched' = fetched + 1

\* player counts for the aggregate (round, key): it ended at that round (any
\* round for 'total') and one of its units has that key (any player for 'total')
CountsFor(player, round, key) ==
    /\ round = TotalRound \/ round = IntKey(player.last_round)
    /\ key = TOTAL \/ key \in Range(KeysList(player.units))

RECURSIVE SumOver(_, _, _)
\* sum of weigh[p] * val[p] over the players p of S
SumOver(S, weigh, val) ==
    IF S = {} THEN 0
    ELSE LET p == CHOOSE q \in S : TRUE
         IN  weigh[p] * val[p] + SumOver(S \ {p}, weigh, val)

Counted(round, key) == {p \in DOMAIN accepted : CountsFor(p, round, key)}
\* number of accepted players counted by (round, key)
NumAccepted(round, key) ==
    SumOver(Counted(round, key), accepted, [p \in DOMAIN accepted |-> 1])
\* sum of their placements
PlacementsOf(round, key) ==
    SumOver(Counted(round, key), accepted, [p \in DOMAIN accepted |-> p.placement])

----------------------------------------------------------------------------
(* Counts *)

\* C1. Count conservation: once the loop has ended, the count of every
\* aggregate (round, key) of the table is the number of accepted players
\* that ended at that round (any round for 'total') and hold a unit with
\* that key (any player for the key 'total').
CountConservation ==
    FoldEnded =>
        \A e \in Entries(results) :
            results[e[1]][e[2]].count = NumAccepted(e[1], e[2])

\* C10. One accepted player adds at most once to an aggregate: no aggregate
\* of a round counts more than the round's 'total', and the 'total' of a
\* round counts one per accepted player of that round.
AtMostOncePerPlayer ==
    FoldEnded =>
        \A r \in DOMAIN results :
            /\ results[r][TOTAL].count = NumAccepted(r, TOTAL)
            /\ \A k \in DOMAIN results[r] : results[r][k].count <= results[r][TOTAL].count

\* C4. When the averages are about to be computed, every aggregate of the
\* table has a count of at least 1.
FinalizerPrecondition ==
    pc = "finalize" => \A e \in Entries(results) : results[e[1]][e[2]].count >= 1

----------------------------------------------------------------------------
(* Averages *)

\* C2. Average value: once the averages are computed, avg_place of every
\* aggregate is the sum of the placements of the accepted players it counts,
\* divided by its count or (the weaker reading) by the number of those
\* players.
AverageValue ==
    Averaged =>
        \A e \in Entries(results) :
            LET a == results[e[1]][e[2]]
            IN  \/ Times(a.avg_place, a.count, Number(PlacementsOf(e[1], e[2])))
                \/ Times(a.avg_place, NumAccepted(e[1], e[2]), Number(PlacementsOf(e[1], e[2])))

\* C5. Average bounds: when the loop has been handed at least one player
\* (here: the participant read last), just before the averages are computed
\* every aggregate has count >= 1 and count <= sum <= 8 * count, and every
\* average computed lies in [1, 8].
AverageBounds ==
    (fetched >= 1 /\ PipelineMatch(participant)) =>
        \A e \in Entries(results) :
            LET a == results[e[1]][e[2]]
            IN  /\ pc = "finalize" =>
                    /\ a.count >= 1
                    /\ AtLeast(a.avg_place, a.count)
                    /\ AtMost(a.avg_place, 8 * a.count)
                /\ Averaged => AtLeast(a.avg_place, 1) /\ AtMost(a.avg_place, 8)

----------------------------------------------------------------------------
(* Records that are left out *)

ExclusionRoundFiltering ==
    /\ [](\A n \in ExcludedRounds : IntKey(n) \notin DOMAIN results)
    /\ [][(/\ ReadsParticipant
           /\ Has(participant', "last_round")
           /\ participant'.last_round \in ExcludedRounds) => results' = results]_vars

\* a ranked participant with six distinct units that ended at an excluded
\* round has been read, after another was folded
ExcludedRoundSeen ==
    /\ pc = "fold"
    /\ participant # NoDoc
    /\ participant.queue_id = RankedQueue
    /\ Has(participant, "last_round")
    /\ participant.last_round \in ExcludedRounds
    /\ NumUnits(participant) >= MinUnits
    /\ ~HasDuplicates(Project(participant))
    /\ accepted # EmptyBag

----------------------------------------------------------------------------
(* Order of the records *)

\* all the orders in which the players of a bag can arrive
RECURSIVE Orders(_)
Orders(bag) ==
    IF DOMAIN bag = {} THEN {<<>>}
    ELSE UNION {{<<p>> \o s : s \in Orders(bag (-) SetToBag({p}))} : p \in DOMAIN bag}

\* the loop over a sequence of players that all pass the duplicate test
RECURSIVE FoldAll(_, _)
FoldAll(res, players) ==
    IF players = <<>> THEN res
    ELSE FoldAll(LoopBody(res, Head(players)).res, Tail(players))

\* the table folded from a bag, in some order
FoldBag(bag) == FoldAll(InitResults, CHOOSE s \in Orders(bag) : TRUE)

None == [count |-> 0, avg_place |-> Number(0)]
At(res, r, k) == IF r \in DOMAIN res /\ k \in DOMAIN res[r] THEN res[r][k] ELSE None

Sum(x, y) == Reduced(x.num * y.den + y.num * x.den, x.den * y.den)

\* addition of two tables, key by key
Merge(t1, t2) ==
    [r \in DOMAIN t1 \cup DOMAIN t2 |->
        LET keys == (IF r \in DOMAIN t1 THEN DOMAIN t1[r] ELSE {})
                        \cup (IF r \in DOMAIN t2 THEN DOMAIN t2[r] ELSE {})
        IN  [k \in keys |->
                [count |-> At(t1, r, k).count + At(t2, r, k).count,
                 avg_place |-> Sum(At(t1, r, k).avg_place, At(t2, r, k).avg_place)]]]

\* C6. Commutativity of the fold: the table the loop has built from the
\* players in their order of arrival is the table built from the same
\* players in any other order, and the key-by-key sum of the tables built
\* separately from the two parts of any split of them.
Commutativity ==
    pc \in {"fold", "finalize"} =>
        /\ \A s \in Orders(accepted) : FoldAll(InitResults, s) = results
        /\ \A part \in SubBag(accepted) :
               Merge(FoldBag(part), FoldBag(accepted (-) part)) = results

\* three players were folded, not all alike, two of them at the same round
\* with different placements
SeveralFolded ==
    /\ pc = "finalize"
    /\ BagCardinality(accepted) >= 3
    /\ \E p, q \in DOMAIN accepted :
        /\ p.last_round = q.last_round
        /\ p.placement # q.placement
        /\ p.units # q.units

----------------------------------------------------------------------------
(* Course of the script *)

\* an exception has ended the script
Crashed == pc = "crashed"

\* C8. Sink ordering and no partial output: the dump is written only from
\* the position after the averages, which is reached only from the end of
\* the loop by a pass in which no division failed, and it writes the table
\* as that pass left it; after an exception (a missing field in the loop, a
\* failed division) nothing more happens and nothing was written.
SinkOrdering ==
    /\ [](Crashed => artifact = NoArtifact)
    /\ [](artifact # NoArtifact => pc = "done" /\ artifact = <<results>>)
    /\ [][/\ artifact' # artifact => pc = "dump" /\ artifact' = <<results>> /\ results' = results
          /\ (pc' = "dump" /\ pc # "dump") => pc = "finalize" /\ ~DivisionRaises(results)
          /\ (pc' = "finalize" /\ pc # "finalize") => pc = "fold"
          /\ Crashed => pc' = "crashed" /\ artifact' = artifact]_vars

\* the loop raised on a player after two others were folded, and nothing is written
CrashedWhileStreaming ==
    /\ Crashed
    /\ BagCardinality(accepted) >= 2
    /\ participant # NoDoc
    /\ ~Has(participant, "last_round")
    /\ artifact = NoArtifact

\* C9. Lifecycle: while the loop runs no key of the table is removed and no
\* count and no sum decreases; the pass that computes the averages keeps
\* every key and every count and leaves in each aggregate its sum divided
\* once by its count; the table changes at no other position.
Lifecycle ==
    [][/\ pc = "fold" =>
            /\ DOMAIN results \subseteq DOMAIN results'
            /\ \A e \in Entries(results) :
                /\ e[2] \in DOMAIN results'[e[1]]
                /\ results'[e[1]][e[2]].count >= results[e[1]][e[2]].count
                /\ NotBelow(results'[e[1]][e[2]].avg_place, results[e[1]][e[2]].avg_place)
       /\ (pc = "finalize" /\ pc' = "dump") =>
            /\ Entries(results') = Entries(results)
            /\ \A e \in Entries(results) :
                LET old == results[e[1]][e[2]]
                    new == results'[e[1]][e[2]]
                IN  /\ new.count = old.count
                    /\ Times(new.avg_place, old.count, old.avg_place)
       /\ (pc # "fold" /\ ~(pc = "finalize" /\ pc' = "dump")) => results' = results]_vars

\* the averages were computed over a table holding an aggregate of three
\* players and two rounds
AveragedSeveral ==
    /\ pc = "dump"
    /\ Cardinality(DOMAIN results) >= 3
    /\ \E e \in Entries(results) : results[e[1]][e[2]].count >= 3

=============================================================================
